---- MODULE Spec2Model ----
(***************************************************************************)
(* PolyTranslate: the parallel multi-service translation orchestrator      *)
(* (app/core/translator.py), the glossary post-processor                   *)
(* (app/utils/glossary.py) and the MainWindow handlers that start a batch  *)
(* and reload the service registry (app/gui/main_window.py).               *)
(*                                                                         *)
(* A Python str is a sequence of one-character strings.                    *)
(***************************************************************************)
EXTENDS Integers, Sequences, FiniteSets, TLC

\* ------------------------------------------------------------------------
\* Bounds
\* ------------------------------------------------------------------------

\* Largest max_workers a direct caller of translate_parallel passes.
MaxWorkers == 2

\* Longest text handed to split_text on its own.
MaxTextLen == 5

\* Largest chunk_size handed to split_text on its own.
MaxChunkSize == 4

\* Longest text handed to Glossary.apply on its own.
MaxApplyTextLen == 3

\* ------------------------------------------------------------------------
\* Strings
\* ------------------------------------------------------------------------

Digits == {"0", "1", "2", "3", "4", "5", "6", "7", "8", "9"}

Whitespace == {" "}

\* str.lower() on one character, for the letters the model's texts use.
Lower(c) ==
    CASE c = "O" -> "o"
      [] c = "K" -> "k"
      [] c = "E" -> "e"
      [] c = "S" -> "s"
      [] c = "A" -> "a"
      [] c = "B" -> "b"
      [] OTHER -> c

LowerStr(s) == [i \in 1..Len(s) |-> Lower(s[i])]

RECURSIVE lstrip(_)
lstrip(s) ==
    IF s # <<>> /\ Head(s) \in Whitespace THEN lstrip(Tail(s)) ELSE s

RECURSIVE rstrip(_)
rstrip(s) ==
    IF s # <<>> /\ s[Len(s)] \in Whitespace
    THEN rstrip(SubSeq(s, 1, Len(s) - 1))
    ELSE s

\* str.strip()
strip(s) == rstrip(lstrip(s))

\* " ".join(parts)
RECURSIVE join(_)
join(parts) ==
    IF parts = <<>> THEN <<>>
    ELSE IF Len(parts) = 1 THEN parts[1]
    ELSE parts[1] \o <<" ">> \o join(Tail(parts))

\* ------------------------------------------------------------------------
\* Glossary (app/utils/glossary.py)
\* ------------------------------------------------------------------------

\* Whether `original` occurs in `text` at position 1, honouring the
\* case-sensitivity flag (str.replace / re.IGNORECASE).
MatchesAt(text, original, case_sensitive) ==
    /\ Len(text) >= Len(original)
    /\ IF case_sensitive
       THEN SubSeq(text, 1, Len(original)) = original
       ELSE LowerStr(SubSeq(text, 1, Len(original))) = LowerStr(original)

\* The first position at which `original` occurs in `text`, 0 if none.
find(text, original, case_sensitive) ==
    LET found == { i \in 1..(Len(text) - Len(original) + 1) :
                     MatchesAt(SubSeq(text, i, Len(text)), original, case_sensitive) }
    IN  IF found = {} THEN 0
        ELSE CHOOSE i \in found : \A j \in found : i <= j

\* replace stopping after the first occurrence.
replace_first(text, original, replacement, case_sensitive) ==
    IF original = <<>> \/ find(text, original, case_sensitive) = 0 THEN text
    ELSE SubSeq(text, 1, find(text, original, case_sensitive) - 1)
         \o replacement
         \o SubSeq(text, find(text, original, case_sensitive) + Len(original),
                   Len(text))

\* result.replace(original, replacement), and the matching of
\* pattern.sub(..., result): left to right, non-overlapping, every
\* occurrence of a non-empty original.
RECURSIVE replace(_, _, _, _)
replace(text, original, replacement, case_sensitive) ==
    IF original = <<>> \/ find(text, original, case_sensitive) = 0 THEN text
    ELSE SubSeq(text, 1, find(text, original, case_sensitive) - 1)
         \o replacement
         \o replace(SubSeq(text, find(text, original, case_sensitive) + Len(original),
                           Len(text)),
                    original, replacement, case_sensitive)

\* A raised re.error, where a str was to be returned.
re_error == <<"re.error">>

\* The replacement template of pattern.sub(replacement, ...): a backslash
\* starts an escape; of the escapes, backslash-n (a newline) and
\* backslash-backslash (one backslash) are modelled, and a backslash before
\* another letter or at the end is the re.error "bad escape".
RECURSIVE expand_template(_)
expand_template(replacement) ==
    IF replacement = <<>> THEN <<>>
    ELSE IF Head(replacement) # "\\"
    THEN LET rest == expand_template(Tail(replacement))
         IN  IF rest = re_error THEN re_error ELSE <<Head(replacement)>> \o rest
    ELSE IF Len(replacement) >= 2 /\ replacement[2] \in {"n", "\\"}
    THEN LET rest == expand_template(SubSeq(replacement, 3, Len(replacement)))
         IN  IF rest = re_error THEN re_error
             ELSE <<IF replacement[2] = "n" THEN "\n" ELSE "\\">> \o rest
    ELSE re_error

\* re.compile(re.escape(original), re.IGNORECASE).sub(replacement, text)
sub(text, original, replacement) ==
    IF expand_template(replacement) = re_error THEN re_error
    ELSE replace(text, original, expand_template(replacement), FALSE)

\* One pass of the loop of Glossary.apply; an exception raised by an
\* earlier pass ends the loop.
ApplyEntry(result, entry, case_sensitive) ==
    IF result = re_error THEN re_error
    ELSE IF case_sensitive THEN replace(result, entry[1], entry[2], TRUE)
    ELSE sub(result, entry[1], entry[2])

\* Insert entry e into an already sorted list, after every entry whose key
\* is at least as long (sorted(..., key=len, reverse=True) is stable).
RECURSIVE InsertByLen(_, _)
InsertByLen(e, sorted) ==
    IF sorted = <<>> THEN <<e>>
    ELSE IF Len(Head(sorted)[1]) >= Len(e[1])
    THEN <<Head(sorted)>> \o InsertByLen(e, Tail(sorted))
    ELSE <<e>> \o sorted

\* sorted_entries left in insertion order.
sorted_entries_unsorted(entries) == entries

RECURSIVE sorted_entries(_)
sorted_entries(entries) ==
    IF entries = <<>> THEN <<>>
    ELSE InsertByLen(entries[Len(entries)],
                     sorted_entries(SubSeq(entries, 1, Len(entries) - 1)))

RECURSIVE ApplyEntries(_, _, _)
ApplyEntries(text, entries, case_sensitive) ==
    IF entries = <<>> THEN text
    ELSE ApplyEntries(ApplyEntry(text, Head(entries), case_sensitive),
                      Tail(entries), case_sensitive)

\* Glossary.apply(text); g is [entries: the dict as a list of
\* <<original, replacement>> in insertion order, case_sensitive: BOOLEAN].
apply(g, text) ==
    IF g.entries = <<>> THEN text
    ELSE ApplyEntries(text, sorted_entries(g.entries), g.case_sensitive)

\* ------------------------------------------------------------------------
\* Chunker (app/core/translator.py)
\* ------------------------------------------------------------------------

\* SimpleTokenizer.sent_tokenize: the loop over the characters of text from
\* position i, with the sentences found so far and the current sentence.
RECURSIVE TokenizeLoop(_, _, _, _)
TokenizeLoop(text, i, sentences, current_sentence) ==
    IF i > Len(text)
    THEN IF strip(current_sentence) # <<>>
         THEN Append(sentences, strip(current_sentence))
         ELSE sentences
    ELSE LET cur == Append(current_sentence, text[i])
         IN  IF /\ text[i] \in {".", "!", "?"}
                /\ Len(cur) > 1
                /\ cur[Len(cur) - 1] \notin Digits
             THEN TokenizeLoop(text, i + 1, Append(sentences, strip(cur)), <<>>)
             ELSE TokenizeLoop(text, i + 1, sentences, cur)

sent_tokenize(text) ==
    LET sentences == TokenizeLoop(text, 1, <<>>, <<>>)
    IN  IF sentences = <<>> THEN <<text>> ELSE sentences

\* safe_sent_tokenize: the tokenizer of this repository (the fallback the
\* function ends in when the NLTK tokenizer is unavailable).
safe_sent_tokenize(text) == sent_tokenize(text)

\* Translator.split_text: the loop over the sentences from position i.
RECURSIVE SplitLoop(_, _, _, _, _)
SplitLoop(sentences, i, chunks, current_chunk, chunk_size) ==
    IF i > Len(sentences)
    THEN IF current_chunk # <<>> THEN Append(chunks, strip(current_chunk)) ELSE chunks
    ELSE LET sent == sentences[i]
         IN  IF Len(current_chunk \o sent) <= chunk_size
             THEN SplitLoop(sentences, i + 1, chunks,
                            IF current_chunk # <<>>
                            THEN current_chunk \o <<" ">> \o sent
                            ELSE sent,
                            chunk_size)
             ELSE SplitLoop(sentences, i + 1,
                            IF current_chunk # <<>>
                            THEN Append(chunks, strip(current_chunk))
                            ELSE chunks,
                            sent, chunk_size)

\* split_text without the fallback of its last line.
split_text_no_fallback(text, chunk_size) ==
    SplitLoop(safe_sent_tokenize(text), 1, <<>>, <<>>, chunk_size)

split_text(text, chunk_size) ==
    LET chunks == SplitLoop(safe_sent_tokenize(text), 1, <<>>, <<>>, chunk_size)
    IN  IF chunks # <<>> THEN chunks ELSE <<text>>

\* ------------------------------------------------------------------------
\* Service registry (Translator.services) and provider boundary
\* ------------------------------------------------------------------------

\* The service ids of the model: one provider that is always registered and
\* one that is registered only when its API key is set.
ServiceIds == {"google", "openai"}

\* MainWindow.SERVICES lists them in this order.
SERVICES == <<"google", "openai">>

ServiceChars(service_name) ==
    IF service_name = "google"
    THEN <<"g", "o", "o", "g", "l", "e">>
    ELSE <<"o", "p", "e", "n", "a", "i">>

\* The values an API key setting takes: unset, or some key.
ApiKeyValues == {"", "sk"}

\* Translator._initialize_services, the part that registers google: the
\* registry entry holds the api_key the service object was built with.
InitializeGoogle(reg, keys) ==
    [s \in DOMAIN reg \cup {"google"} |->
        IF s = "google" THEN [api_key |-> ""] ELSE reg[s]]

\* Translator._initialize_services, the part that registers openai.
InitializeOpenAI(reg, keys) ==
    IF keys["openai"] # ""
    THEN [s \in DOMAIN reg \cup {"openai"} |->
            IF s = "openai" THEN [api_key |-> keys["openai"]] ELSE reg[s]]
    ELSE reg

\* Translator._initialize_services on an empty registry.
_initialize_services(keys) == InitializeOpenAI(InitializeGoogle(<<>>, keys), keys)

\* TranslationService.is_configured of the registered service.
is_configured(service_name, service, openai_available) ==
    IF service_name = "google" THEN TRUE
    ELSE service.api_key # "" /\ openai_available

\* Translator.get_available_services
get_available_services(reg, openai_available) ==
    {s \in DOMAIN reg : is_configured(s, reg[s], openai_available)}

\* f"[Error: {e}]"
ErrorMarker(message) ==
    <<"[", "E", "r", "r", "o", "r", ":", " ">> \o message \o <<"]">>

\* f"Service '{service_name}' is not available"
NotAvailable(service_name) ==
    <<"S", "e", "r", "v", "i", "c", "e", " ", "'">> \o ServiceChars(service_name)
    \o <<"'", " ", "i", "s", " ", "n", "o", "t", " ",
         "a", "v", "a", "i", "l", "a", "b", "l", "e">>

\* f"Service '{service_name}' is not configured"
NotConfigured(service_name) ==
    <<"S", "e", "r", "v", "i", "c", "e", " ", "'">> \o ServiceChars(service_name)
    \o <<"'", " ", "i", "s", " ", "n", "o", "t", " ",
         "c", "o", "n", "f", "i", "g", "u", "r", "e", "d">>

\* translate_lookup without the is_configured check.
translate_lookup_unchecked(reg, service_name, openai_available) ==
    IF service_name \notin DOMAIN reg
    THEN [ok |-> FALSE, error |-> NotAvailable(service_name)]
    ELSE [ok |-> TRUE, error |-> <<>>]

\* Translator.translate up to the provider call: the registry lookup and the
\* is_configured check. ok = FALSE is the ValueError with its message.
translate_lookup(reg, service_name, openai_available) ==
    IF service_name \notin DOMAIN reg
    THEN [ok |-> FALSE, error |-> NotAvailable(service_name)]
    ELSE IF ~is_configured(service_name, reg[service_name], openai_available)
    THEN [ok |-> FALSE, error |-> NotConfigured(service_name)]
    ELSE [ok |-> TRUE, error |-> <<>>]

\* What a provider's translate does: returns one of these texts ...
ProviderTexts == {<<"O", "K">>, <<"s", "i">>}

\* ... or raises with one of these messages.
ProviderErrors == {<<"d", "o", "w", "n">>}

ProviderOutcomes ==
    [kind : {"returned"}, text : ProviderTexts]
    \cup [kind : {"raised"}, text : ProviderErrors]

NoOutcome == [kind |-> "none", text |-> <<>>]

\* translate_task after the provider call: Translator.translate applies the
\* glossary to what the provider returned; an exception becomes the marker.
translate_task_result(g, outcome) ==
    IF outcome.kind = "returned"
    THEN apply(g, outcome.text)
    ELSE ErrorMarker(outcome.text)

\* translate_task's return value for its arguments and its result string.
translate_task_return(args, result) == <<args[2], args[3], result>>

\* record_result storing each result at the next free position of its
\* service, i.e. in arrival order instead of under its chunk index.
record_result_arrival(results, chunk_idx, service_name, result) ==
    [results EXCEPT ![service_name] =
        [i \in DOMAIN @ \cup {Cardinality(DOMAIN @)} |->
            IF i = Cardinality(DOMAIN @) THEN result ELSE @[i]]]

\* record_result replacing the service's dict instead of adding to it.
record_result_overwrite(results, chunk_idx, service_name, result) ==
    [results EXCEPT ![service_name] = [i \in {chunk_idx} |-> result]]

\* chunk_results[service_name][chunk_idx] = result
record_result(results, chunk_idx, service_name, result) ==
    [results EXCEPT ![service_name] =
        [i \in DOMAIN @ \cup {chunk_idx} |-> IF i = chunk_idx THEN result ELSE @[i]]]

\* progress_args reading `completed` before it was incremented.
progress_args_stale(n_completed, total) == <<n_completed - 1, total>>

\* The arguments of progress_callback(completed, total_tasks).
progress_args(n_completed, total) == <<n_completed, total>>

\* report_progress calling back only once the whole batch has completed.
report_progress_batched(calls, callback, n_completed, total) ==
    IF callback /\ n_completed = total
    THEN Append(calls, progress_args(n_completed, total))
    ELSE calls

\* if progress_callback: progress_callback(completed, total_tasks), as the
\* list of calls made so far with this call added.
report_progress(calls, callback, n_completed, total) ==
    IF callback THEN Append(calls, progress_args(n_completed, total)) ELSE calls

\* translate_task calling the callback itself when its unit is done.
translate_task_reports(calls, callback, n_completed, total) ==
    IF callback THEN Append(calls, progress_args(n_completed + 1, total)) ELSE calls

\* The progress calls a worker makes while it runs translate_task (lines
\* 248-254): none, the task only returns its result.
translate_task_progress(calls, callback, n_completed, total) == calls

\* total_tasks = len(chunks) * len(services)
total_tasks_of(chunk_list, service_list) == Len(chunk_list) * Len(service_list)

\* ordered_chunks = [chunk_results[service_name][i] for i in range(len(chunks))]
ordered_chunks(results_of_service, n_chunks) ==
    [i \in 1..n_chunks |-> results_of_service[i - 1]]

\* join_results leaving out a service none of whose chunks was translated.
join_results_skip_failed(results, g) ==
    [s \in {t \in DOMAIN results :
                \E i \in 1..Len(results[t]) :
                    results[t][i] = <<>> \/ Head(results[t][i]) # "["} |->
        apply(g, join(results[s]))]

\* Lines 279-283: every service's chunks joined with a space, then the
\* glossary applied to the joined text.
join_results(results, g) ==
    [s \in DOMAIN results |-> apply(g, join(results[s]))]

\* {service: [] for service in services}: the keys of the per-service dicts.
result_keys(service_list) == {service_list[i] : i \in 1..Len(service_list)}

\* ------------------------------------------------------------------------
\* Inputs
\* ------------------------------------------------------------------------

\* The texts a batch is run on: empty, one sentence, two sentences.
Texts ==
    { <<>>,
      <<"a", ".">>,
      <<"a", ".", " ", "b", ".">> }

\* chunk_size values of a direct call: one that separates the two sentences
\* and one that keeps them in one chunk.
ChunkSizes == {2, 5}

\* services arguments of a direct call: every list of distinct ids.
ServiceLists ==
    { <<>>, <<"google">>, <<"openai">>,
      <<"google", "openai">>, <<"openai", "google">> }

EmptyGlossary == [entries |-> <<>>, case_sensitive |-> FALSE]

\* The glossaries of the model: none; a term whose replacement contains the
\* term; a term that occurs in the error marker.
Glossaries ==
    { EmptyGlossary,
      [entries |-> << << <<"o", "k">>, <<"o", "k", "s">> >> >>,
       case_sensitive |-> FALSE],
      [entries |-> << << <<"e", "r", "r", "o", "r">>, <<"f", "a", "i", "l">> >> >>,
       case_sensitive |-> FALSE] }

\* ------------------------------------------------------------------------
\* State
\* ------------------------------------------------------------------------

VARIABLES
    \* Settings / Translator
    api_keys,            \* Settings api_keys: service id -> key ("" = unset)
    OPENAI_AVAILABLE,    \* whether the openai package imported
    services,            \* Translator.services: the registry
    glossary,            \* Translator.glossary
    reload_pc,           \* position of the GUI thread inside reload_services
    \* translate_parallel: arguments and locals of the running call
    pc,                  \* "idle", "submit", "collect", "returned"
    caller,              \* "none", "api" (a direct call) or "gui" (_run_translation)
    requested,           \* the services argument
    chunks,
    max_workers,
    progress_callback,   \* whether a callback was passed
    total_tasks,
    completed,
    futures,             \* the submitted futures, in submission order
    chunk_results,
    all_results,
    final_results,
    \* MainWindow
    is_translating,      \* MainWindow._is_translating
    current_text,        \* MainWindow._current_text
    gui_pc,              \* "idle", "thread_started", "in_batch", "complete_scheduled"
    thread_services,     \* the services handed to the translation thread
    \* History of the running call (observations, not program state)
    provider_outcome,    \* what the provider did for each future
    progress_calls,      \* the arguments of every progress_callback call
    yield_order,         \* the futures in the order as_completed yielded them
    services_at_call,    \* the registry when translate_parallel was called
    \* A direct call of one function of the library
    fn,                  \* the function called ("none" when there is no call)
    args,                \* its arguments
    fn_pc,               \* "idle", "called", "provider", "returned" or "raised"
    ret,                 \* its return value, or the exception it raised
    events,              \* the collaborators the call has invoked, in order
    \* Settings
    _settings,           \* Settings._settings
    config_file,         \* what config_path holds
    \* DeepLService (class attributes) and the threads inside _translate_free
    now,                 \* time.time(), in ticks
    _last_free_request_time,
    _free_api_lock,      \* "free", or the thread that holds it
    threads,             \* each thread's position in _translate_free
    gate_passes,         \* the times at which the gate was passed, in order
    \* Settings objects next to each other
    class_api_keys,      \* the dict Settings.DEFAULT_SETTINGS["api_keys"]
    instances,           \* each Settings object's _settings
    config_files,        \* what each object's config_path holds
    \* TranslationHistory
    _entries,            \* TranslationHistory._entries, newest first
    history_file,        \* the entries history_path holds
    added,               \* how many entries add_entry has built so far
    deleted              \* how many calls of delete_entry there have been

translatorVars == <<api_keys, OPENAI_AVAILABLE, services, glossary, reload_pc>>

batchVars ==
    <<pc, caller, requested, chunks, max_workers, progress_callback, total_tasks,
      completed, futures, chunk_results, all_results, final_results>>

guiVars == <<is_translating, current_text, gui_pc, thread_services>>

historyVars == <<provider_outcome, progress_calls, yield_order, services_at_call>>

callVars == <<fn, args, fn_pc, ret, events>>

settingsVars == <<_settings, config_file>>

deeplVars ==
    <<now, _last_free_request_time, _free_api_lock, threads, gate_passes>>

sharingVars == <<class_api_keys, instances, config_files>>

storeVars == <<_entries, history_file, added, deleted>>

moduleVars == <<deeplVars, sharingVars, storeVars>>

directVars == <<callVars, settingsVars, moduleVars>>

vars == <<translatorVars, batchVars, guiVars, historyVars, directVars>>

\* The state of translate_parallel when no call is running.
NoBatch ==
    /\ pc = "idle"
    /\ caller = "none"
    /\ requested = <<>>
    /\ chunks = <<>>
    /\ max_workers = 1
    /\ progress_callback = FALSE
    /\ total_tasks = 0
    /\ completed = 0
    /\ futures = <<>>
    /\ chunk_results = <<>>
    /\ all_results = <<>>
    /\ final_results = <<>>
    /\ provider_outcome = <<>>
    /\ progress_calls = <<>>
    /\ yield_order = <<>>
    /\ services_at_call = <<>>

\* No function of the library is being called directly.
NoCall ==
    /\ fn = "none"
    /\ args = <<>>
    /\ fn_pc = "idle"
    /\ ret = <<>>
    /\ events = <<>>

\* Settings.DEFAULT_SETTINGS["chunk_size"], the value get_chunk_size returns
\* for the settings the window runs with.
DEFAULT_chunk_size == 1000

\* Settings.DEFAULT_SETTINGS["max_workers"]
DEFAULT_max_workers == 3

\* The settings keys the batch reads, at their defaults.
DEFAULT_SETTINGS ==
    [chunk_size |-> DEFAULT_chunk_size, max_workers |-> DEFAULT_max_workers]

\* self._settings.get("chunk_size", 1000)
get_chunk_size(settings) ==
    IF "chunk_size" \in DOMAIN settings THEN settings["chunk_size"] ELSE 1000

\* self._settings.get("max_workers", 3)
get_max_workers(settings) ==
    IF "max_workers" \in DOMAIN settings THEN settings["max_workers"] ELSE 3

\* What config_path holds: no file, a file that is not JSON, or a JSON
\* object `data`.
NoConfigFile == [state |-> "missing", data |-> <<>>]

\* Settings() where no config file exists.
NoSettings ==
    /\ _settings = DEFAULT_SETTINGS
    /\ config_file = NoConfigFile

\* DeepLService._min_request_interval, 1.0 s, in clock ticks of half a
\* second.
_min_request_interval == 2

\* time.time() when the process starts: any time at least one interval
\* after the epoch.
StartTime == _min_request_interval

\* The threads that may call DeepLService._translate_free, on any instances
\* (the gate's state is on the class).
Threads == {"t1", "t2"}

\* A thread outside _translate_free.
NoFreeCall ==
    [pc |-> "idle", attempt |-> 0, wake |-> 0, requests |-> 0,
     response |-> "none", ret |-> "none"]

\* The class attributes of DeepLService after import, with no call running.
NoDeepL ==
    /\ now = StartTime
    /\ _last_free_request_time = 0
    /\ _free_api_lock = "free"
    /\ threads = [t \in Threads |-> NoFreeCall]
    /\ gate_passes = <<>>

\* The names under which Settings objects are held.
Instances == {"s1", "s2"}

\* DEFAULT_SETTINGS["api_keys"] as the class body writes it, restricted to
\* the model's services.
DEFAULT_api_keys == [service \in ServiceIds |-> ""]

\* A name to which no Settings object is bound yet.
NoInstance ==
    [state |-> "none", api_keys_ref |-> "class", api_keys |-> <<>>,
     chunk_size |-> DEFAULT_chunk_size]

\* The Settings class after import, no object built.
NoSharing ==
    /\ class_api_keys = DEFAULT_api_keys
    /\ instances = [i \in Instances |-> NoInstance]
    /\ config_files = [i \in Instances |-> NoConfigFile]

\* TranslationHistory() where no history file exists.
NoHistory ==
    /\ _entries = <<>>
    /\ history_file = <<>>
    /\ added = 0
    /\ deleted = 0

\* Translator.__init__ with any settings and any stored glossary; MainWindow
\* after __init__.
Init ==
    /\ api_keys \in [{"openai"} -> ApiKeyValues]
    /\ OPENAI_AVAILABLE \in BOOLEAN
    /\ services = _initialize_services(api_keys)
    /\ glossary \in Glossaries
    /\ reload_pc = "idle"
    /\ NoBatch
    /\ is_translating = FALSE
    /\ current_text = <<>>
    /\ gui_pc = "idle"
    /\ thread_services = <<>>
    /\ NoCall
    /\ NoSettings
    /\ NoDeepL
    /\ NoSharing
    /\ NoHistory

\* ------------------------------------------------------------------------
\* translate_parallel
\* ------------------------------------------------------------------------

\* Lines 241-246 and the creation of the executor: the call with its
\* arguments, up to the submission loop.
EnterTranslateParallel(who, text, service_list, chunk_size, workers, callback) ==
    /\ pc = "idle"
    /\ pc' = IF total_tasks_of(split_text(text, chunk_size), service_list) = 0
             THEN "collect" ELSE "submit"
    /\ caller' = who
    /\ requested' = service_list
    /\ chunks' = split_text(text, chunk_size)
    /\ max_workers' = workers
    /\ progress_callback' = callback
    /\ total_tasks' = total_tasks_of(split_text(text, chunk_size), service_list)
    /\ completed' = 0
    /\ all_results' = [s \in result_keys(service_list) |-> <<>>]
    /\ chunk_results' = [s \in result_keys(service_list) |-> <<>>]
    /\ futures' = <<>>
    /\ final_results' = <<>>
    /\ provider_outcome' = <<>>
    /\ progress_calls' = <<>>
    /\ yield_order' = <<>>
    /\ services_at_call' = services
    /\ UNCHANGED directVars

\* A direct call of Translator.translate_parallel (as the tests make it).
TranslateParallel ==
    /\ gui_pc = "idle"
    /\ \E text \in Texts, service_list \in ServiceLists, chunk_size \in ChunkSizes,
          workers \in 1..MaxWorkers, callback \in BOOLEAN :
          EnterTranslateParallel("api", text, service_list, chunk_size, workers, callback)
    /\ UNCHANGED <<translatorVars, guiVars>>

\* The arguments of the n-th submit (n from 1), in the order of the two
\* nested loops: for chunk_idx, chunk ... for service_name ...
submit_args(chunk_list, service_list, n) ==
    LET chunk_idx == (n - 1) \div Len(service_list)
        k == ((n - 1) % Len(service_list)) + 1
    IN  <<chunk_list[chunk_idx + 1], chunk_idx, service_list[k]>>

\* executor.submit(translate_task, chunk, chunk_idx, service_name)
Submit ==
    /\ pc = "submit"
    /\ Len(futures) < total_tasks
    /\ futures' = Append(futures,
                         [args |-> submit_args(chunks, requested, Len(futures) + 1),
                          state |-> "pending",
                          result |-> <<>>])
    /\ provider_outcome' = Append(provider_outcome, NoOutcome)
    /\ pc' = IF Len(futures) + 1 = total_tasks THEN "collect" ELSE "submit"
    /\ UNCHANGED <<translatorVars, guiVars, caller, requested, chunks, max_workers,
                   progress_callback, total_tasks, completed, chunk_results,
                   all_results, final_results, progress_calls, yield_order,
                   services_at_call>>
    /\ UNCHANGED directVars

Running == {k \in 1..Len(futures) : futures[k].state = "running"}

\* worker_available keeping one worker of the pool back.
worker_available_short(n_running, workers) == n_running < workers - 1

\* ThreadPoolExecutor(max_workers=max_workers): a work item starts when
\* fewer than max_workers of them are running.
worker_available(n_running, workers) == n_running < workers

\* A free worker takes the oldest pending work item and runs translate_task
\* up to the provider call: Translator.translate looks the service up and
\* checks is_configured; a ValueError is caught and becomes the result.
WorkerStart ==
    /\ pc \in {"submit", "collect"}
    /\ worker_available(Cardinality(Running), max_workers)
    /\ \E k \in 1..Len(futures) :
        /\ futures[k].state = "pending"
        /\ \A j \in 1..(k - 1) : futures[j].state # "pending"
        /\ LET found == translate_lookup(services, futures[k].args[3], OPENAI_AVAILABLE)
           IN  IF found.ok
               THEN /\ futures' = [futures EXCEPT ![k].state = "running"]
                    /\ UNCHANGED <<provider_outcome, progress_calls>>
               ELSE /\ futures' =
                        [futures EXCEPT
                            ![k].state = "finished",
                            ![k].result = translate_task_return(
                                              futures[k].args, ErrorMarker(found.error))]
                    /\ provider_outcome' =
                        [provider_outcome EXCEPT
                            ![k] = [kind |-> "value_error", text |-> found.error]]
                    /\ progress_calls' =
                        translate_task_progress(progress_calls, progress_callback,
                                                completed, total_tasks)
    /\ UNCHANGED <<translatorVars, guiVars, pc, caller, requested, chunks, max_workers,
                   progress_callback, total_tasks, completed, chunk_results,
                   all_results, final_results, yield_order,
                   services_at_call>>
    /\ UNCHANGED directVars

\* The provider call of a running task returns or raises; translate_task
\* finishes and the future holds its return value.
WorkerFinish ==
    /\ \E k \in Running, outcome \in ProviderOutcomes :
        /\ futures' =
            [futures EXCEPT
                ![k].state = "finished",
                ![k].result = translate_task_return(
                                  futures[k].args, translate_task_result(glossary, outcome))]
        /\ provider_outcome' = [provider_outcome EXCEPT ![k] = outcome]
    /\ progress_calls' = translate_task_progress(progress_calls, progress_callback,
                                                 completed, total_tasks)
    /\ UNCHANGED <<translatorVars, guiVars, pc, caller, requested, chunks, max_workers,
                   progress_callback, total_tasks, completed, chunk_results,
                   all_results, final_results, yield_order, services_at_call>>
    /\ UNCHANGED directVars

\* One iteration of the as_completed loop (lines 266-271): any finished
\* future not yet yielded is yielded, its result recorded, progress reported.
Collect ==
    /\ pc = "collect"
    /\ \E k \in 1..Len(futures) :
        /\ futures[k].state = "finished"
        /\ LET r == futures[k].result
           IN  /\ chunk_results' = record_result(chunk_results, r[1], r[2], r[3])
               /\ completed' = completed + 1
               /\ progress_calls' = report_progress(progress_calls, progress_callback,
                                                    completed + 1, total_tasks)
        /\ futures' = [futures EXCEPT ![k].state = "yielded"]
        /\ yield_order' = Append(yield_order, k)
    /\ UNCHANGED <<translatorVars, guiVars, pc, caller, requested, chunks, max_workers,
                   progress_callback, total_tasks, all_results, final_results,
                   provider_outcome, services_at_call>>
    /\ UNCHANGED directVars

\* Lines 273-285: after the loop has yielded every future, order the
\* results by chunk index, join them and apply the glossary.
Assemble ==
    /\ pc = "collect"
    /\ \A k \in 1..Len(futures) : futures[k].state = "yielded"
    /\ all_results' =
        [s \in DOMAIN all_results |-> ordered_chunks(chunk_results[s], Len(chunks))]
    /\ final_results' =
        join_results([s \in DOMAIN all_results |->
                         ordered_chunks(chunk_results[s], Len(chunks))], glossary)
    /\ pc' = "returned"
    /\ UNCHANGED <<translatorVars, guiVars, caller, requested, chunks, max_workers,
                   progress_callback, total_tasks, completed, futures, chunk_results,
                   provider_outcome, progress_calls, yield_order, services_at_call>>
    /\ UNCHANGED directVars

\* The state of translate_parallel after its caller has taken the result.
ResetBatch ==
    /\ pc' = "idle"
    /\ caller' = "none"
    /\ requested' = <<>>
    /\ chunks' = <<>>
    /\ max_workers' = 1
    /\ progress_callback' = FALSE
    /\ total_tasks' = 0
    /\ completed' = 0
    /\ futures' = <<>>
    /\ chunk_results' = <<>>
    /\ all_results' = <<>>
    /\ final_results' = <<>>
    /\ provider_outcome' = <<>>
    /\ progress_calls' = <<>>
    /\ yield_order' = <<>>
    /\ services_at_call' = <<>>

\* The direct caller takes the returned mapping.
Return ==
    /\ pc = "returned"
    /\ caller = "api"
    /\ ResetBatch
    /\ UNCHANGED <<translatorVars, guiVars>>
    /\ UNCHANGED directVars

\* The Translator used directly: batches run one after another.
Next ==
    \/ TranslateParallel
    \/ Submit
    \/ WorkerStart
    \/ WorkerFinish
    \/ Collect
    \/ Assemble
    \/ Return

Spec == Init /\ [][Next]_vars

\* The Translator with the scheduling the claim about termination assumes: the
\* calling thread keeps running its loops, an idle worker takes pending
\* work, and every provider call that was started returns or raises.
\* Termination does not depend on what the glossary holds, so it is left
\* empty here.
InitLive ==
    /\ Init
    /\ glossary = EmptyGlossary
    /\ OPENAI_AVAILABLE = TRUE

SpecLive ==
    /\ InitLive
    /\ [][Next]_vars
    /\ WF_vars(Submit)
    /\ WF_vars(WorkerStart)
    /\ WF_vars(WorkerFinish)
    /\ WF_vars(Collect)
    /\ WF_vars(Assemble)

\* ------------------------------------------------------------------------
\* MainWindow (app/gui/main_window.py)
\* ------------------------------------------------------------------------

\* free_services of _start_translation, restricted to the model's ids.
free_services == {"google"}

\* The service checkboxes that can be ticked: the sublists of SERVICES.
Selections == { <<>>, <<"google">>, <<"openai">>, <<"google", "openai">> }

\* valid_services = [s for s in services if s in available or s in free_services]
RECURSIVE valid_services(_, _)
valid_services(selected, available) ==
    IF selected = <<>> THEN <<>>
    ELSE IF Head(selected) \in available \/ Head(selected) \in free_services
    THEN <<Head(selected)>> \o valid_services(Tail(selected), available)
    ELSE valid_services(Tail(selected), available)

\* The handlers of the window run on the one GUI thread: none starts while
\* another (here: reload_services) has not finished.
GuiThreadFree == reload_pc = "idle"

\* MainWindow._on_file_selected with a file whose text is `text`.
OnFileSelected ==
    /\ GuiThreadFree
    /\ \E text \in Texts :
        /\ text # current_text
        /\ current_text' = text
    /\ UNCHANGED <<translatorVars, batchVars, historyVars, is_translating, gui_pc,
                   thread_services>>
    /\ UNCHANGED directVars

\* MainWindow._start_translation past its early returns (each of which
\* leaves the state unchanged): the flag is set, the settings are saved and
\* the thread is started; when save() raises, the handler ends there.
StartTranslation ==
    /\ GuiThreadFree
    /\ ~is_translating
    /\ current_text # <<>>
    /\ is_translating' = TRUE
    /\ \E selected \in Selections, save_failed \in BOOLEAN :
        /\ selected # <<>>
        /\ LET valid == valid_services(selected,
                            get_available_services(services, OPENAI_AVAILABLE))
           IN  /\ valid # <<>>
               /\ IF save_failed
                  THEN UNCHANGED <<thread_services, gui_pc, config_file>>
                  ELSE /\ config_file' = [state |-> "json", data |-> _settings]
                       /\ thread_services' = valid
                       /\ gui_pc' = "thread_started"
    /\ UNCHANGED <<translatorVars, batchVars, historyVars, current_text>>
    /\ UNCHANGED <<callVars, _settings, moduleVars>>

\* ThreadPoolExecutor(max_workers=n) raises ValueError for n <= 0.
pool_size_rejected(n) == n <= 0

\* MainWindow._run_translation on the new thread, up to and including the
\* call of translate_parallel (the callback is always passed).
RunTranslation ==
    /\ gui_pc = "thread_started"
    /\ ~pool_size_rejected(get_max_workers(_settings))
    /\ EnterTranslateParallel("gui", current_text, thread_services,
                              get_chunk_size(_settings),
                              get_max_workers(_settings), TRUE)
    /\ gui_pc' = "in_batch"
    /\ UNCHANGED <<translatorVars, is_translating, current_text, thread_services>>

\* _run_translation after translate_parallel has returned: the window takes
\* the result (final_results in the state before this step) and
\* _on_translation_complete is scheduled with root.after.
RunTranslationReturn ==
    /\ pc = "returned"
    /\ caller = "gui"
    /\ gui_pc' = "complete_scheduled"
    /\ ResetBatch
    /\ UNCHANGED <<translatorVars, is_translating, current_text, thread_services>>
    /\ UNCHANGED directVars

\* MainWindow._on_translation_complete
OnTranslationComplete ==
    /\ GuiThreadFree
    /\ gui_pc = "complete_scheduled"
    /\ is_translating' = FALSE
    /\ gui_pc' = "idle"
    /\ UNCHANGED <<translatorVars, batchVars, historyVars, current_text,
                   thread_services>>
    /\ UNCHANGED directVars

\* SettingsDialog._save_settings with a new openai key, then
\* MainWindow._on_settings_saved -> Translator.reload_services, up to and
\* including self.services.clear().
OnSettingsSaved ==
    /\ GuiThreadFree
    /\ \E key \in ApiKeyValues : api_keys' = [api_keys EXCEPT !["openai"] = key]
    /\ services' = <<>>
    /\ reload_pc' = "cleared"
    /\ UNCHANGED <<OPENAI_AVAILABLE, glossary, batchVars, guiVars, historyVars>>
    /\ UNCHANGED directVars

\* reload_services -> _initialize_services: google is registered.
ReloadGoogle ==
    /\ reload_pc = "cleared"
    /\ services' = InitializeGoogle(services, api_keys)
    /\ reload_pc' = "google_added"
    /\ UNCHANGED <<api_keys, OPENAI_AVAILABLE, glossary, batchVars, guiVars, historyVars>>
    /\ UNCHANGED directVars

\* reload_services -> _initialize_services: openai is registered when its
\* key is set; reload_services returns.
ReloadOpenAI ==
    /\ reload_pc = "google_added"
    /\ services' = InitializeOpenAI(services, api_keys)
    /\ reload_pc' = "idle"
    /\ UNCHANGED <<api_keys, OPENAI_AVAILABLE, glossary, batchVars, guiVars, historyVars>>
    /\ UNCHANGED directVars

\* MainWindow._save_glossary with the rows of the glossary tab.
SaveGlossary ==
    /\ GuiThreadFree
    /\ \E g \in Glossaries :
        /\ g # glossary
        /\ glossary' = g
    /\ UNCHANGED <<api_keys, OPENAI_AVAILABLE, services, reload_pc, batchVars,
                   guiVars, historyVars>>
    /\ UNCHANGED directVars

\* The application: the window's handlers on the GUI thread, the translation
\* thread and the workers of its batch.
NextGUI ==
    \/ OnFileSelected
    \/ StartTranslation
    \/ RunTranslation
    \/ Submit
    \/ WorkerStart
    \/ WorkerFinish
    \/ Collect
    \/ Assemble
    \/ RunTranslationReturn
    \/ OnTranslationComplete
    \/ OnSettingsSaved
    \/ ReloadGoogle
    \/ ReloadOpenAI
    \/ SaveGlossary

SpecGUI == Init /\ [][NextGUI]_vars

\* ------------------------------------------------------------------------
\* Properties of translate_parallel
\* ------------------------------------------------------------------------

\* C1: when translate_parallel has returned, for every requested service s
\* and every chunk index i, the i-th piece of s's assembled result is the
\* result returned by the task submitted for (chunk i, s), whatever order the
\* futures completed and were yielded in.
ReassemblyByChunkIndex ==
    pc = "returned" =>
        \A s \in {requested[n] : n \in 1..Len(requested)} :
            /\ Len(all_results[s]) = Len(chunks)
            /\ \A i \in 0..(Len(chunks) - 1) :
                \E k \in 1..Len(futures) :
                    /\ futures[k].args = <<chunks[i + 1], i, s>>
                    /\ all_results[s][i + 1] = futures[k].result[3]

\* A returned two-chunk batch whose futures were yielded out of submission
\* order and whose two chunks have different results for some service.
ReassemblyOutOfOrderReached ==
    /\ pc = "returned"
    /\ Len(chunks) = 2
    /\ \E a, b \in 1..Len(yield_order) : a < b /\ yield_order[a] > yield_order[b]
    /\ \E s \in DOMAIN all_results : all_results[s][1] # all_results[s][2]

\* C2: every submitted unit's result is recorded in chunk_results exactly
\* once: a future is yielded at most once, a yielded future's result is in
\* its service's dict under its chunk index, the dicts hold as many entries
\* as futures were yielded, and at return every one of the
\* len(chunks) * len(services) units has been yielded.
EveryUnitRecordedOnce ==
    /\ \A a, b \in 1..Len(yield_order) : yield_order[a] = yield_order[b] => a = b
    /\ \A k \in 1..Len(futures) :
        futures[k].state = "yielded" =>
            /\ \E a \in 1..Len(yield_order) : yield_order[a] = k
            /\ futures[k].args[2] \in DOMAIN chunk_results[futures[k].args[3]]
            /\ chunk_results[futures[k].args[3]][futures[k].args[2]] = futures[k].result[3]
    /\ \A s \in DOMAIN chunk_results :
        Cardinality(DOMAIN chunk_results[s])
            = Cardinality({a \in 1..Len(yield_order) : futures[yield_order[a]].args[3] = s})
    /\ pc = "returned" =>
        /\ Len(futures) = Len(chunks) * Len(requested)
        /\ \A k \in 1..Len(futures) : futures[k].state = "yielded"

\* A returned batch of at least two units in which one provider call raised
\* and another returned.
MixedOutcomesRecordedReached ==
    /\ pc = "returned"
    /\ \E j, k \in 1..Len(futures) :
        /\ provider_outcome[j].kind = "raised"
        /\ provider_outcome[k].kind = "returned"

\* C3: when exactly one unit's provider call raised, the batch returns, the
\* slot of every unit whose provider call returned holds what the provider
\* returned, and the failing unit's slot holds [Error: <message>].
OneFailureIsolated ==
    (/\ pc = "returned"
     /\ Cardinality({k \in 1..Len(futures) : provider_outcome[k].kind = "raised"}) = 1)
    => \A k \in 1..Len(futures) :
          LET slot == all_results[futures[k].args[3]][futures[k].args[2] + 1]
          IN  /\ provider_outcome[k].kind = "raised"
                    => slot = ErrorMarker(provider_outcome[k].text)
              /\ provider_outcome[k].kind = "returned"
                    => slot = provider_outcome[k].text

\* C4: a call of translate_parallel that names a service which is not in the
\* registry or is not configured submits no unit and returns no result (it
\* raises instead).
ConfigErrorRaisedBeforeDispatch ==
    (/\ pc # "idle"
     /\ \E n \in 1..Len(requested) :
            ~translate_lookup(services_at_call, requested[n], OPENAI_AVAILABLE).ok)
    => (futures = <<>> /\ pc # "returned")

\* C5: the text returned for a service is one application of the glossary to
\* the space-join, in chunk order, of the raw unit results (what the provider
\* returned, or the error marker).
GlossaryAppliedOnce ==
    pc = "returned" =>
        \A n \in 1..Len(requested) :
            final_results[requested[n]] =
                apply(glossary,
                      join([i \in 1..Len(chunks) |->
                              LET k == (i - 1) * Len(requested) + n
                              IN  IF provider_outcome[k].kind = "returned"
                                  THEN provider_outcome[k].text
                                  ELSE ErrorMarker(provider_outcome[k].text)]))

\* C6: for every unit whose provider call raised with message m, the text
\* returned for its service contains the literal marker [Error: m].
ErrorMarkerSurvives ==
    pc = "returned" =>
        \A k \in 1..Len(futures) :
            provider_outcome[k].kind = "raised" =>
                LET text == final_results[futures[k].args[3]]
                    marker == ErrorMarker(provider_outcome[k].text)
                IN  \E at \in 1..(Len(text) - Len(marker) + 1) :
                        SubSeq(text, at, at + Len(marker) - 1) = marker

\* C7: the completed values passed to progress_callback never decrease,
\* every call passes total = len(chunks) * len(services), and when the batch
\* has returned the last call passed completed = total.
ProgressMonotone ==
    /\ \A n \in 1..Len(progress_calls) :
        progress_calls[n][2] = Len(chunks) * Len(requested)
    /\ \A n \in 1..(Len(progress_calls) - 1) :
        progress_calls[n][1] <= progress_calls[n + 1][1]
    /\ (pc = "returned" /\ progress_calls # <<>>) =>
        progress_calls[Len(progress_calls)][1] = Len(chunks) * Len(requested)

\* A returned batch of at least two units run with a callback.
ProgressFinalCallReached ==
    /\ pc = "returned"
    /\ progress_callback
    /\ Len(progress_calls) >= 2
    /\ Len(yield_order) >= 2

\* C8: with a callback, the n-th future yielded causes the n-th call, with
\* completed = n: after each unit there are exactly as many calls as units
\* completed, and a returned batch has made exactly total calls 1, ..., total.
ProgressOncePerUnit ==
    progress_callback =>
        /\ Len(progress_calls) = Len(yield_order)
        /\ \A n \in 1..Len(progress_calls) : progress_calls[n][1] = n
        /\ pc = "returned" => Len(progress_calls) = Len(chunks) * Len(requested)

\* A running batch with a callback in which some units have been yielded and
\* others have not.
ProgressMidBatchReached ==
    /\ pc = "collect"
    /\ progress_callback
    /\ Len(yield_order) >= 1
    /\ Len(yield_order) < Len(futures)
    /\ Len(progress_calls) >= 1

\* C10: the mapping translate_parallel returns has exactly the requested
\* service ids as its keys and a string for each of them.
OneResultPerRequestedService ==
    pc = "returned" =>
        /\ DOMAIN final_results = {requested[n] : n \in 1..Len(requested)}
        /\ \A s \in DOMAIN final_results : final_results[s] \in Seq(STRING)

\* A returned batch of two services and two chunks in which one service's
\* provider raised on every chunk and the other's returned on every chunk.
ServiceFailedEverywhereReached ==
    /\ pc = "returned"
    /\ Len(requested) = 2
    /\ Len(chunks) = 2
    /\ \E s, t \in DOMAIN final_results :
        /\ \A k \in 1..Len(futures) :
            futures[k].args[3] = s => provider_outcome[k].kind = "raised"
        /\ \A k \in 1..Len(futures) :
            futures[k].args[3] = t => provider_outcome[k].kind = "returned"
        /\ s # t

\* ------------------------------------------------------------------------
\* Properties of the window
\* ------------------------------------------------------------------------

\* C9: reload_services does not run while a batch is in flight: whenever
\* translate_parallel is running, the registry is not in the middle of a
\* reload, and no unit's lookup fails in an emptied or partly rebuilt
\* registry.
ReloadOnlyBetweenBatches ==
    pc # "idle" =>
        /\ reload_pc = "idle"
        /\ \A k \in 1..Len(futures) : provider_outcome[k].kind # "value_error"

\* ------------------------------------------------------------------------
\* Termination of a batch
\* ------------------------------------------------------------------------

\* C11: when every started provider call returns or raises, a call of
\* translate_parallel leads to its return, with every one of the
\* len(chunks) * len(services) units finished and yielded.
BatchCompletes ==
    (pc = "submit" \/ pc = "collect")
        ~> (/\ pc = "returned"
            /\ Len(futures) = Len(chunks) * Len(requested)
            /\ \A k \in 1..Len(futures) : futures[k].state = "yielded")

\* A returned batch of four units that ran on a pool of one worker.
SingleWorkerBatchReturned ==
    /\ pc = "returned"
    /\ max_workers = 1
    /\ Len(futures) = 4

\* C12: a call of translate_parallel with an empty services list does not
\* return a result (it raises instead).
EmptyServicesRaises ==
    (caller = "api" /\ requested = <<>>) => pc # "returned"

\* ------------------------------------------------------------------------
\* Direct calls of single functions
\* ------------------------------------------------------------------------

\* The strings over `alphabet` of length at most n.
StringsUpTo(alphabet, n) == UNION { [1..k -> alphabet] : k \in 0..n }

\* A Translator and a window that stay idle while one function is called.
IdleApplication ==
    /\ api_keys = [s \in {"openai"} |-> ""]
    /\ OPENAI_AVAILABLE = FALSE
    /\ services = _initialize_services(api_keys)
    /\ reload_pc = "idle"
    /\ NoBatch
    /\ is_translating = FALSE
    /\ current_text = <<>>
    /\ gui_pc = "idle"
    /\ thread_services = <<>>

\* ------------------------------------------------------------------------
\* split_text called on its own
\* ------------------------------------------------------------------------

\* Texts with sentence ends, spaces and a digit before a full stop.
ChunkerTexts == StringsUpTo({"a", ".", " ", "1"}, MaxTextLen)

ChunkerSizes == 1..MaxChunkSize

\* A call translator.split_text(text, chunk_size) about to run.
InitChunker ==
    /\ IdleApplication
    /\ glossary = EmptyGlossary
    /\ NoSettings
    /\ NoDeepL
    /\ NoSharing
    /\ NoHistory
    /\ fn = "split_text"
    /\ args \in [text : ChunkerTexts, chunk_size : ChunkerSizes]
    /\ fn_pc = "called"
    /\ ret = <<>>
    /\ events = <<>>

CallSplitText ==
    /\ fn = "split_text"
    /\ fn_pc = "called"
    /\ ret' = split_text(args.text, args.chunk_size)
    /\ fn_pc' = "returned"
    /\ UNCHANGED <<translatorVars, batchVars, guiVars, historyVars, moduleVars, fn, args,
                   events, settingsVars>>

SpecChunker == InitChunker /\ [][CallSplitText]_vars

SplitTextReturned == fn = "split_text" /\ fn_pc = "returned"

\* C13: every chunk split_text returns is at most chunk_size long, the
\* joining spaces counted, unless the chunk is one single sentence that is
\* itself longer than chunk_size.
ChunkSizeBound ==
    SplitTextReturned =>
        \A k \in 1..Len(ret) :
            \/ Len(ret[k]) <= args.chunk_size
            \/ \E i \in 1..Len(safe_sent_tokenize(args.text)) :
                   /\ ret[k] = safe_sent_tokenize(args.text)[i]
                   /\ Len(ret[k]) > args.chunk_size

\* C14: the space-join of the chunks equals the space-join of the
\* tokenizer's sentences, for every text and chunk_size: no sentence is
\* lost and none is duplicated.
ChunkCoverage ==
    SplitTextReturned => join(ret) = join(safe_sent_tokenize(args.text))

ApplyOriginals == { <<"a">>, <<"a", "b">>, <<"B">> }

\* Replacements: empty (set_entries and load accept it), a text foreign to
\* every original, one that holds an original, and two with a backslash.
ApplyReplacements ==
    { <<>>, <<"X">>, <<"a", "b">>, <<"\\", "n">>, <<"\\", "d">> }

\* The glossary of test_longest_match_first, in either insertion order.
TestingGlossaries ==
    LET test == << <<"t", "e", "s", "t">>, <<"X">> >>
        testing == << <<"t", "e", "s", "t", "i", "n", "g">>, <<"Y">> >>
    IN  { [entries |-> order, case_sensitive |-> cs] :
            order \in { <<test, testing>>, <<testing, test>> }, cs \in BOOLEAN }

\* Glossaries of at most two entries (a dict: the originals are distinct).
ApplyGlossaries ==
    { [entries |-> <<>>, case_sensitive |-> cs] : cs \in BOOLEAN }
    \cup { [entries |-> << <<o, r>> >>, case_sensitive |-> cs] :
             o \in ApplyOriginals, r \in ApplyReplacements, cs \in BOOLEAN }
    \cup { g \in { [entries |-> << <<o1, r1>>, <<o2, r2>> >>, case_sensitive |-> cs] :
                      o1 \in ApplyOriginals, o2 \in ApplyOriginals,
                      r1 \in ApplyReplacements, r2 \in ApplyReplacements,
                      cs \in BOOLEAN } :
             g.entries[1][1] # g.entries[2][1] }
    \cup TestingGlossaries

ApplyTexts ==
    StringsUpTo({"a", "b", "A"}, MaxApplyTextLen)
    \cup { <<"t", "e", "s", "t", "i", "n", "g">> }

\* glossary.apply(glossary.apply(text)) about to be evaluated.
InitGlossary ==
    /\ IdleApplication
    /\ glossary \in ApplyGlossaries
    /\ NoSettings
    /\ NoDeepL
    /\ NoSharing
    /\ NoHistory
    /\ fn = "apply"
    /\ args \in [text : ApplyTexts]
    /\ fn_pc = "called"
    /\ ret = <<>>
    /\ events = <<>>

\* One call glossary.apply(text): its value is appended to ret, or the call
\* raises.
Apply(text) ==
    /\ IF apply(glossary, text) = re_error
       THEN fn_pc' = "raised" /\ ret' = ret
       ELSE fn_pc' = "returned" /\ ret' = Append(ret, apply(glossary, text))
    /\ UNCHANGED <<translatorVars, batchVars, guiVars, historyVars, moduleVars, fn, args,
                   events, settingsVars>>

\* The inner call.
CallApply ==
    /\ fn = "apply"
    /\ fn_pc = "called"
    /\ Apply(args.text)

\* The outer call, on the value of the inner one.
CallApplyAgain ==
    /\ fn = "apply"
    /\ fn_pc = "returned"
    /\ Len(ret) = 1
    /\ Apply(ret[1])

NextGlossary ==
    \/ CallApply
    \/ CallApplyAgain

SpecGlossary == InitGlossary /\ [][NextGlossary]_vars

\* The inner call has returned or raised.
ApplyDone == fn = "apply" /\ (fn_pc = "raised" \/ Len(ret) >= 1)

\* Both calls have returned, or one of them raised.
ApplyTwiceDone == fn = "apply" /\ (fn_pc = "raised" \/ Len(ret) = 2)

\* Whether s occurs in t as written.
Occurs(s, t) ==
    \E i \in 1..(Len(t) - Len(s) + 1) : SubSeq(t, i, i + Len(s) - 1) = s

\* Whether s occurs in t under the case rule of the glossary.
Matchable(s, t, case_sensitive) ==
    IF case_sensitive THEN Occurs(s, t) ELSE Occurs(LowerStr(s), LowerStr(t))

\* C16: of two entries where one original term is a strict substring of
\* the other, the longer one is applied first whatever the insertion order:
\* the result is that of replacing the longer term, then the shorter one,
\* and a text that is the longer term becomes the longer term's replacement
\* ("testing" gives "Y", never "Xing").
LongestTermFirst ==
    \A i \in {1, 2} :
        LET long == glossary.entries[i]
            short == glossary.entries[3 - i]
            cs == glossary.case_sensitive
            expected == ApplyEntry(ApplyEntry(args.text, long, cs), short, cs)
        IN  (/\ ApplyDone
             /\ Len(glossary.entries) = 2
             /\ Len(short[1]) < Len(long[1])
             /\ Occurs(short[1], long[1]))
            => /\ (expected = re_error) = (fn_pc = "raised" /\ ret = <<>>)
               /\ expected # re_error => ret[1] = expected
               /\ (/\ args.text = long[1]
                   /\ "\\" \notin { long[2][k] : k \in 1..Len(long[2]) }
                   /\ "\\" \notin { short[2][k] : k \in 1..Len(short[2]) }
                   /\ ~Matchable(short[1], long[2], cs))
                  => ret[1] = long[2]

TestingGivesYReached ==
    /\ ApplyDone
    /\ glossary \in TestingGlossaries
    /\ glossary.entries[1][2] = <<"X">>
    /\ args.text = <<"t", "e", "s", "t", "i", "n", "g">>
    /\ ret[1] = <<"Y">>

\* The precondition of C17 as stated: no entry's replacement is a matchable
\* original term of another entry.
NoReplacementIsAnotherOriginal(g) ==
    \A i, j \in 1..Len(g.entries) :
        i # j =>
            IF g.case_sensitive
            THEN g.entries[i][2] # g.entries[j][1]
            ELSE LowerStr(g.entries[i][2]) # LowerStr(g.entries[j][1])

ReplacementsForeign(g) ==
    \A i, j \in 1..Len(g.entries) :
        /\ g.entries[i][2] # <<>>
        /\ \A k \in 1..Len(g.entries[i][2]) :
              /\ g.entries[i][2][k] # "\\"
              /\ ~Matchable(<<g.entries[i][2][k]>>, g.entries[j][1], g.case_sensitive)

ReplacementInsertedAsStored ==
    (ApplyDone /\ Len(glossary.entries) = 1)
        => /\ fn_pc = "returned"
           /\ ret[1] = replace(args.text, glossary.entries[1][1],
                               glossary.entries[1][2], glossary.case_sensitive)

\* ------------------------------------------------------------------------
\* Translator.translate called on its own
\* ------------------------------------------------------------------------

\* translator.translate(text, source_lang, target_lang, service_name) about
\* to run, on a Translator built from any settings and glossary.
InitTranslate ==
    /\ api_keys \in [{"openai"} -> ApiKeyValues]
    /\ OPENAI_AVAILABLE \in BOOLEAN
    /\ services = _initialize_services(api_keys)
    /\ glossary \in Glossaries
    /\ reload_pc = "idle"
    /\ NoBatch
    /\ is_translating = FALSE
    /\ current_text = <<>>
    /\ gui_pc = "idle"
    /\ thread_services = <<>>
    /\ NoSettings
    /\ NoDeepL
    /\ NoSharing
    /\ NoHistory
    /\ fn = "translate"
    /\ args \in [text : Texts, service_name : ServiceIds]
    /\ fn_pc = "called"
    /\ ret = <<>>
    /\ events = <<>>

\* Lines 181-189: the lookup and the is_configured check raise ValueError,
\* or the provider's translate is called.
TranslateLookup ==
    /\ fn = "translate"
    /\ fn_pc = "called"
    /\ LET found == translate_lookup(services, args.service_name, OPENAI_AVAILABLE)
       IN  IF found.ok
           THEN /\ fn_pc' = "provider"
                /\ events' = Append(events, "service.translate")
                /\ ret' = ret
           ELSE /\ fn_pc' = "raised"
                /\ events' = events
                /\ ret' = [exception |-> "ValueError", message |-> found.error]
    /\ UNCHANGED <<translatorVars, batchVars, guiVars, historyVars, moduleVars, fn, args,
                   settingsVars>>

\* Line 189: the provider returns a text or raises; its exception leaves
\* translate as it is.
ProviderAnswers ==
    /\ fn = "translate"
    /\ fn_pc = "provider"
    /\ \E outcome \in ProviderOutcomes :
          IF outcome.kind = "returned"
          THEN /\ fn_pc' = "translated"
               /\ ret' = outcome.text
          ELSE /\ fn_pc' = "raised"
               /\ ret' = [exception |-> "Exception", message |-> outcome.text]
    /\ UNCHANGED <<translatorVars, batchVars, guiVars, historyVars, moduleVars, fn, args,
                   events, settingsVars>>

\* Lines 192-194: the glossary is applied and the text returned.
ApplyGlossary ==
    /\ fn = "translate"
    /\ fn_pc = "translated"
    /\ events' = Append(events, "glossary.apply")
    /\ ret' = apply(glossary, ret)
    /\ fn_pc' = "returned"
    /\ UNCHANGED <<translatorVars, batchVars, guiVars, historyVars, moduleVars, fn, args,
                   settingsVars>>

NextTranslate ==
    \/ TranslateLookup
    \/ ProviderAnswers
    \/ ApplyGlossary

SpecTranslate == InitTranslate /\ [][NextTranslate]_vars

\* C19: when service_name is not in the registry, or the service reports
\* is_configured() false, translate raises ValueError and has called
\* neither a provider's translate nor the glossary.
UnavailableServiceRaises ==
    (/\ fn = "translate"
     /\ fn_pc # "called"
     /\ \/ args.service_name \notin DOMAIN services
        \/ ~is_configured(args.service_name, services[args.service_name],
                          OPENAI_AVAILABLE))
        => /\ fn_pc = "raised"
           /\ ret.exception = "ValueError"
           /\ events = <<>>

UnconfiguredServiceRaisedReached ==
    /\ fn = "translate"
    /\ fn_pc = "raised"
    /\ args.service_name \in DOMAIN services
    /\ ~is_configured(args.service_name, services[args.service_name],
                      OPENAI_AVAILABLE)

\* ------------------------------------------------------------------------
\* Settings (app/config/settings.py)
\* ------------------------------------------------------------------------

\* The limits of set_chunk_size and set_max_workers.
MIN_chunk_size == 100

MAX_chunk_size == 5000

MIN_max_workers == 1

MAX_max_workers == 10

\* The sizes and counts a caller or a config file supplies: the limits,
\* their neighbours and the defaults.
ChunkSizeValues ==
    {MIN_chunk_size - 1, MIN_chunk_size, DEFAULT_chunk_size, MAX_chunk_size,
     MAX_chunk_size + 1}

MaxWorkersValues ==
    {MIN_max_workers - 1, MIN_max_workers, DEFAULT_max_workers, MAX_max_workers,
     MAX_max_workers + 1}

SettingValues(key) ==
    IF key = "chunk_size" THEN ChunkSizeValues ELSE MaxWorkersValues

\* The JSON objects a config file holds: any of the two keys, any value.
ConfigData ==
    { [k \in keys |-> full[k]] :
        full \in [chunk_size : ChunkSizeValues, max_workers : MaxWorkersValues],
        keys \in SUBSET {"chunk_size", "max_workers"} }

ConfigFiles ==
    { NoConfigFile, [state |-> "invalid", data |-> <<>>] }
    \cup { [state |-> "json", data |-> d] : d \in ConfigData }

\* Settings._deep_merge for keys whose values are not dicts.
_deep_merge(base, override) ==
    [k \in DOMAIN base \cup DOMAIN override |->
        IF k \in DOMAIN override THEN override[k] ELSE base[k]]

\* What Settings.load leaves in _settings.
load(file) ==
    IF file.state = "json"
    THEN _deep_merge(DEFAULT_SETTINGS, file.data)
    ELSE DEFAULT_SETTINGS

\* chunk_size_rejected with the limits themselves refused.
chunk_size_rejected_exclusive(size) ==
    size <= MIN_chunk_size \/ size >= MAX_chunk_size

\* Whether set_chunk_size raises ValueError.
chunk_size_rejected(size) == size < MIN_chunk_size \/ size > MAX_chunk_size

\* Whether set_max_workers raises ValueError.
max_workers_rejected(workers) ==
    workers < MIN_max_workers \/ workers > MAX_max_workers

ValueError(message) == [exception |-> "ValueError", message |-> message]

\* Settings(config_path) on any config file, at the point where __init__
\* has set _settings to {} and is about to call load().
InitSettings ==
    /\ IdleApplication
    /\ glossary = EmptyGlossary
    /\ config_file \in ConfigFiles
    /\ _settings = <<>>
    /\ NoDeepL
    /\ NoSharing
    /\ NoHistory
    /\ fn = "__init__"
    /\ args = <<>>
    /\ fn_pc = "called"
    /\ ret = <<>>
    /\ events = <<>>

\* Whether the Settings object has been built.
Constructed == fn_pc # "called"

\* What a Settings method leaves of the call record: its name, arguments
\* and whether it returned or raised.
Called(name, arguments, raised) ==
    /\ fn' = name
    /\ args' = arguments
    /\ fn_pc' = IF raised THEN "raised" ELSE "returned"
    /\ ret' = IF raised THEN ValueError(name) ELSE <<>>
    /\ UNCHANGED <<translatorVars, batchVars, guiVars, historyVars, moduleVars, events>>

\* The load() that ends __init__.
Construct ==
    /\ fn = "__init__"
    /\ fn_pc = "called"
    /\ _settings' = load(config_file)
    /\ UNCHANGED config_file
    /\ Called("__init__", <<>>, FALSE)

Load ==
    /\ Constructed
    /\ _settings' = load(config_file)
    /\ UNCHANGED config_file
    /\ Called("load", <<>>, FALSE)

\* save(): the file is written, or open() fails and ValueError is raised.
Save ==
    \E failed \in BOOLEAN :
        /\ Constructed
        /\ config_file' = IF failed THEN config_file
                          ELSE [state |-> "json", data |-> _settings]
        /\ UNCHANGED _settings
        /\ Called("save", <<>>, failed)

Set ==
    \E key \in {"chunk_size", "max_workers"} :
        \E value \in SettingValues(key) :
            /\ Constructed
            /\ _settings' = [_settings EXCEPT ![key] = value]
            /\ UNCHANGED config_file
            /\ Called("set", <<key, value>>, FALSE)

SetChunkSize ==
    \E size \in ChunkSizeValues :
        /\ Constructed
        /\ _settings' = IF chunk_size_rejected(size) THEN _settings
                        ELSE [_settings EXCEPT !["chunk_size"] = size]
        /\ UNCHANGED config_file
        /\ Called("set_chunk_size", <<size>>, chunk_size_rejected(size))

SetMaxWorkers ==
    \E workers \in MaxWorkersValues :
        /\ Constructed
        /\ _settings' = IF max_workers_rejected(workers) THEN _settings
                        ELSE [_settings EXCEPT !["max_workers"] = workers]
        /\ UNCHANGED config_file
        /\ Called("set_max_workers", <<workers>>, max_workers_rejected(workers))

ResetToDefaults ==
    /\ Constructed
    /\ _settings' = DEFAULT_SETTINGS
    /\ UNCHANGED config_file
    /\ Called("reset_to_defaults", <<>>, FALSE)

NextSettings ==
    \/ Construct
    \/ Load
    \/ Save
    \/ Set
    \/ SetChunkSize
    \/ SetMaxWorkers
    \/ ResetToDefaults

SpecSettings == InitSettings /\ [][NextSettings]_vars

\* C20: after any sequence of Settings operations get_max_workers() is
\* within [1,10] and get_chunk_size() within [100,5000].
SettingsWithinRange ==
    (/\ fn \in {"__init__", "load", "save", "set", "set_chunk_size",
                "set_max_workers", "reset_to_defaults"}
     /\ fn_pc # "called")
        => /\ get_max_workers(_settings) \in 1..10
           /\ get_chunk_size(_settings) \in 100..5000

\* C21: set_chunk_size with a size outside [100,5000] and set_max_workers
\* with a count outside [1,10] raise ValueError and leave the stored value
\* as it was; a value in the range is stored and the getter returns it.
SettersValidate ==
    [][/\ fn' = "set_chunk_size" =>
            IF args'[1] \in 100..5000
            THEN /\ fn_pc' = "returned"
                 /\ get_chunk_size(_settings') = args'[1]
            ELSE /\ fn_pc' = "raised"
                 /\ ret'.exception = "ValueError"
                 /\ get_chunk_size(_settings') = get_chunk_size(_settings)
       /\ fn' = "set_max_workers" =>
            IF args'[1] \in 1..10
            THEN /\ fn_pc' = "returned"
                 /\ get_max_workers(_settings') = args'[1]
            ELSE /\ fn_pc' = "raised"
                 /\ ret'.exception = "ValueError"
                 /\ get_max_workers(_settings') = get_max_workers(_settings)
       /\ fn' \in {"set_chunk_size", "set_max_workers"} =>
            /\ get_chunk_size(_settings') # get_chunk_size(_settings)
                  => fn' = "set_chunk_size"
            /\ get_max_workers(_settings') # get_max_workers(_settings)
                  => fn' = "set_max_workers"]_vars

OutOfRangeRejectedReached ==
    /\ fn = "set_max_workers"
    /\ fn_pc = "raised"
    /\ args[1] = 11
    /\ get_max_workers(_settings) = 10

\* ------------------------------------------------------------------------
\* DeepLService / GoogleService / YandexService: translate called on its own
\* ------------------------------------------------------------------------

\* The three services whose translate tries the keyed endpoint first.
FallbackServices == {"deepl", "google", "yandex"}

\* What _translate_with_api_key can raise: the ValueError it builds itself,
\* or the KeyError of reading a 200 body that lacks the expected keys.
KeyedExceptions == {"ValueError", "KeyError"}

\* What _translate_free can raise.
FreeExceptions == {"ValueError"}

\* What one endpoint does when called: it returns a text or raises.
EndpointOutcomes(endpoint, exceptions) ==
    [endpoint : {endpoint}, kind : {"returned"}, value : ProviderTexts]
    \cup [endpoint : {endpoint}, kind : {"raised"}, value : exceptions]

\* service.translate(text, source_lang, target_lang) about to run on a
\* service built with any api_key.
InitService ==
    /\ IdleApplication
    /\ glossary = EmptyGlossary
    /\ NoSettings
    /\ NoDeepL
    /\ NoSharing
    /\ NoHistory
    /\ fn = "service.translate"
    /\ args \in [service : FallbackServices, api_key : ApiKeyValues, text : Texts]
    /\ fn_pc = "called"
    /\ ret = <<>>
    /\ events = <<>>

\* `if self.api_key:`, the keyed endpoint is tried only with a key.
ServiceTranslate ==
    /\ fn = "service.translate"
    /\ fn_pc = "called"
    /\ fn_pc' = IF args.api_key # "" THEN "keyed" ELSE "free"
    /\ UNCHANGED <<translatorVars, batchVars, guiVars, historyVars, moduleVars, fn, args,
                   ret, events, settingsVars>>

keyed_caught_value_error(exception) == exception = "ValueError"

\* `except Exception: pass` around the keyed call.
keyed_caught(exception) == TRUE

\* `return self._translate_with_api_key(...)` inside the try: its text is
\* returned, a caught exception falls through to the free endpoint.
KeyedAnswers ==
    /\ fn = "service.translate"
    /\ fn_pc = "keyed"
    /\ \E outcome \in EndpointOutcomes("keyed", KeyedExceptions) :
          /\ events' = Append(events, outcome)
          /\ IF outcome.kind = "returned"
             THEN /\ fn_pc' = "returned"
                  /\ ret' = outcome.value
             ELSE IF keyed_caught(outcome.value)
                  THEN /\ fn_pc' = "free"
                       /\ ret' = ret
                  ELSE /\ fn_pc' = "raised"
                       /\ ret' = [exception |-> outcome.value,
                                  endpoint |-> "keyed"]
    /\ UNCHANGED <<translatorVars, batchVars, guiVars, historyVars, moduleVars, fn, args,
                   settingsVars>>

\* `return self._translate_free(...)`: its text or its exception is the
\* call's.
FreeAnswers ==
    /\ fn = "service.translate"
    /\ fn_pc = "free"
    /\ \E outcome \in EndpointOutcomes("free", FreeExceptions) :
          /\ events' = Append(events, outcome)
          /\ IF outcome.kind = "returned"
             THEN /\ fn_pc' = "returned"
                  /\ ret' = outcome.value
             ELSE /\ fn_pc' = "raised"
                  /\ ret' = [exception |-> outcome.value, endpoint |-> "free"]
    /\ UNCHANGED <<translatorVars, batchVars, guiVars, historyVars, moduleVars, fn, args,
                   settingsVars>>

NextService ==
    \/ ServiceTranslate
    \/ KeyedAnswers
    \/ FreeAnswers

SpecService == InitService /\ [][NextService]_vars

\* C22: with a key, a keyed call that raises is followed by a call of the
\* free endpoint whose text or error is the call's, and no error of the
\* keyed call reaches the caller; without a key only the free endpoint is
\* called.
KeyedFailureFallsBackToFree ==
    fn = "service.translate" =>
        /\ args.api_key = "" =>
              /\ fn_pc # "keyed"
              /\ \A i \in 1..Len(events) : events[i].endpoint = "free"
        /\ (events # <<>> /\ events[1].endpoint = "keyed"
                /\ events[1].kind = "raised") =>
              /\ fn_pc \in {"free", "returned", "raised"}
              /\ fn_pc \in {"returned", "raised"} =>
                    /\ Len(events) = 2
                    /\ events[2].endpoint = "free"
        /\ fn_pc \in {"returned", "raised"} =>
              LET last == events[Len(events)]
              IN  IF last.kind = "returned"
                  THEN fn_pc = "returned" /\ ret = last.value
                  ELSE /\ fn_pc = "raised"
                       /\ ret = [exception |-> last.value, endpoint |-> "free"]

\* The keyed call raised KeyError and the free endpoint's ValueError is what
\* the caller got.
FreeErrorAfterKeyedFailureReached ==
    /\ fn = "service.translate"
    /\ fn_pc = "raised"
    /\ Len(events) = 2
    /\ events[1] = [endpoint |-> "keyed", kind |-> "raised", value |-> "KeyError"]
    /\ ret = [exception |-> "ValueError", endpoint |-> "free"]

\* ------------------------------------------------------------------------
\* DeepLService._translate_free called from several threads
\* ------------------------------------------------------------------------

\* The last tick of the clock that is explored.
MaxTime == 8

\* `max_retries = 3`
max_retries == 3

\* What requests.post does: it raises requests.RequestException, or the
\* server answers with a status and, for 200, a body: one with translations,
\* a JSON object without "result", no JSON at all, JSON whose values have
\* the wrong types (a beam that is no list, a sentence that is no string),
\* or JSON that is no object where one is read with .get.
Responses ==
    {"RequestException", "200 translations", "200 no result", "200 no json",
     "200 wrong types", "200 no object", "429", "500"}

\* What reading a 200 body does: "text", or the exception it raises.
\* response.json() raises JSONDecodeError, a ValueError; len() of a number
\* or join of a None raises TypeError; .get on a list or a string raises
\* AttributeError.
parse_body(response) ==
    CASE response = "200 translations" -> "text"
      [] response = "200 no result" -> "ValueError"
      [] response = "200 no json" -> "ValueError"
      [] response = "200 wrong types" -> "TypeError"
      [] response = "200 no object" -> "AttributeError"

\* `except (KeyError, IndexError, TypeError) as e: raise ValueError(...)`
parse_exception(exception) ==
    IF exception \in {"KeyError", "IndexError", "TypeError"}
    THEN "ValueError"
    ELSE exception

\* Lines 119-154: what one attempt does with the response it got: the call
\* returns, raises, or goes round the loop again.
handle_response(response, attempt) ==
    IF response \in {"RequestException", "429"}
    THEN IF attempt = max_retries
         THEN [pc |-> "raised", ret |-> "ValueError"]
         ELSE [pc |-> "gate", ret |-> "none"]
    ELSE IF response = "500"
    THEN [pc |-> "raised", ret |-> "ValueError"]
    ELSE IF parse_body(response) = "text"
    THEN [pc |-> "returned", ret |-> "text"]
    ELSE [pc |-> "raised", ret |-> parse_exception(parse_body(response))]

\* _translate_free running in each of the threads, on class attributes as
\* they are after import.
InitDeepL ==
    /\ IdleApplication
    /\ glossary = EmptyGlossary
    /\ NoSettings
    /\ NoCall
    /\ NoDeepL
    /\ NoSharing
    /\ NoHistory

\* Time passes.
Tick ==
    /\ now < MaxTime
    /\ now' = now + 1
    /\ UNCHANGED <<translatorVars, batchVars, guiVars, historyVars, callVars,
                   settingsVars, sharingVars, storeVars, _last_free_request_time, _free_api_lock,
                   threads, gate_passes>>

\* Lines 73-75: a target language DeepL does not have raises ValueError
\* before any request.
CallTranslateFree(t) ==
    /\ threads[t].pc = "idle"
    /\ \E supported \in BOOLEAN :
          threads' = [threads EXCEPT ![t] =
              IF supported
              THEN [@ EXCEPT !.pc = "gate"]
              ELSE [@ EXCEPT !.pc = "raised", !.ret = "ValueError"]]
    /\ UNCHANGED <<translatorVars, batchVars, guiVars, historyVars, callVars,
                   settingsVars, sharingVars, storeVars, now, _last_free_request_time, _free_api_lock,
                   gate_passes>>

can_acquire_always(lock) == TRUE

\* `with self._free_api_lock:` blocks while another thread holds the lock.
can_acquire(lock) == lock = "free"

\* Lines 112-116: the lock is taken, the timestamp read and the sleep begun
\* (wake is the time at which time.sleep returns at the earliest).
GateEnter(t) ==
    /\ threads[t].pc = "gate"
    /\ can_acquire(_free_api_lock)
    /\ _free_api_lock' = t
    /\ LET current_time == now
           time_since_last_request == current_time - _last_free_request_time
       IN  threads' = [threads EXCEPT ![t] =
               [@ EXCEPT !.pc = "in_gate",
                         !.wake =
                            IF time_since_last_request < _min_request_interval
                            THEN current_time + (_min_request_interval
                                                   - time_since_last_request)
                            ELSE current_time]]
    /\ UNCHANGED <<translatorVars, batchVars, guiVars, historyVars, callVars,
                   settingsVars, sharingVars, storeVars, now, _last_free_request_time, gate_passes>>

\* Line 117 and the end of the with block: the sleep is over, the timestamp
\* is set and the lock released.
GateLeave(t) ==
    /\ threads[t].pc = "in_gate"
    /\ now >= threads[t].wake
    /\ _last_free_request_time' = now
    /\ gate_passes' = Append(gate_passes, now)
    /\ _free_api_lock' = "free"
    /\ threads' = [threads EXCEPT ![t] = [@ EXCEPT !.pc = "post"]]
    /\ UNCHANGED <<translatorVars, batchVars, guiVars, historyVars, callVars,
                   settingsVars, sharingVars, storeVars, now>>

\* Lines 119-154: the request is sent and its response handled; a retry
\* sleeps and goes back to the gate with the next attempt.
Post(t) ==
    /\ threads[t].pc = "post"
    /\ \E response \in Responses :
          LET handled == handle_response(response, threads[t].attempt)
          IN  threads' = [threads EXCEPT ![t] =
                  [@ EXCEPT !.pc = handled.pc,
                            !.ret = handled.ret,
                            !.response = response,
                            !.requests = @ + 1,
                            !.attempt = IF handled.pc = "gate" THEN @ + 1 ELSE @]]
    /\ UNCHANGED <<translatorVars, batchVars, guiVars, historyVars, callVars,
                   settingsVars, sharingVars, storeVars, now, _last_free_request_time, _free_api_lock,
                   gate_passes>>

NextDeepL ==
    \/ Tick
    \/ \E t \in Threads : CallTranslateFree(t)
    \/ \E t \in Threads : GateEnter(t)
    \/ \E t \in Threads : GateLeave(t)
    \/ \E t \in Threads : Post(t)

SpecDeepL == InitDeepL /\ [][NextDeepL]_vars

\* C23: any two passes of the free-tier gate, by whichever threads, are at
\* least _min_request_interval apart, and a thread between reading and
\* setting _last_free_request_time holds _free_api_lock.
RateGateSpacing ==
    /\ \A i \in 1..(Len(gate_passes) - 1) :
          gate_passes[i + 1] - gate_passes[i] >= _min_request_interval
    /\ \A t \in Threads : threads[t].pc = "in_gate" => _free_api_lock = t

\* Both threads are past the gate, the second one after sleeping out the
\* interval.
SecondThreadSleptReached ==
    /\ \A t \in Threads : threads[t].pc = "post" /\ threads[t].attempt = 0
    /\ Len(gate_passes) = 2
    /\ gate_passes[2] - gate_passes[1] = _min_request_interval

\* C29: a call sends at most max_retries + 1 requests, goes round the loop
\* again only after a RequestException or a 429, raises ValueError at once
\* on another status or an unexpected 200 body, and ends with a text or a
\* ValueError.
FreeCallEndsWithTextOrValueError ==
    \A t \in Threads :
        /\ threads[t].requests <= max_retries + 1
        /\ (threads[t].pc \in {"gate", "in_gate", "post"}
                /\ threads[t].attempt > 0) =>
              threads[t].response \in {"RequestException", "429"}
        /\ threads[t].response \in
                {"500", "200 no result", "200 no json", "200 wrong types",
                 "200 no object"} =>
              threads[t].pc = "raised" /\ threads[t].ret = "ValueError"
        /\ threads[t].pc = "raised" => threads[t].ret = "ValueError"
        /\ threads[t].pc = "returned" => threads[t].ret = "text"

\* A worker completes its unit in this step: translate_task returns and the
\* future becomes done.
WorkerCompletesUnit ==
    \E k \in 1..Len(futures) :
        /\ futures[k].state \in {"pending", "running"}
        /\ futures'[k].state = "finished"

\* The thread that called translate_parallel takes one future from
\* as_completed in this step.
CallerYieldsUnit ==
    /\ pc = "collect"
    /\ \E k \in 1..Len(futures) :
        /\ futures[k].state = "finished"
        /\ futures'[k].state = "yielded"

\* progress_callback is invoked in this step.
ProgressCalled == Len(progress_calls') > Len(progress_calls)

WindowConfigFiles ==
    { NoConfigFile, [state |-> "json", data |-> [max_workers |-> 0]] }

InitWindow ==
    /\ api_keys \in [{"openai"} -> ApiKeyValues]
    /\ OPENAI_AVAILABLE = TRUE
    /\ services = _initialize_services(api_keys)
    /\ glossary = EmptyGlossary
    /\ reload_pc = "idle"
    /\ NoBatch
    /\ is_translating = FALSE
    /\ current_text = <<>>
    /\ gui_pc = "idle"
    /\ thread_services = <<>>
    /\ NoCall
    /\ config_file \in WindowConfigFiles
    /\ _settings = load(config_file)
    /\ NoDeepL
    /\ NoSharing
    /\ NoHistory

run_translation_caught_none(exception) == FALSE

\* `except Exception as e:` around the body of _run_translation.
run_translation_caught(exception) == TRUE

\* _run_translation when translate_parallel raises (here: the ValueError of
\* ThreadPoolExecutor): _on_translation_error is scheduled with root.after;
\* an exception that were not caught would end the thread.
RunTranslationRaises ==
    /\ gui_pc = "thread_started"
    /\ pool_size_rejected(get_max_workers(_settings))
    /\ gui_pc' = IF run_translation_caught("ValueError")
                 THEN "error_scheduled"
                 ELSE "thread_died"
    /\ UNCHANGED <<translatorVars, batchVars, historyVars, is_translating,
                   current_text, thread_services>>
    /\ UNCHANGED directVars

\* MainWindow._on_translation_error
OnTranslationError ==
    /\ GuiThreadFree
    /\ gui_pc = "error_scheduled"
    /\ is_translating' = FALSE
    /\ gui_pc' = "idle"
    /\ UNCHANGED <<translatorVars, batchVars, historyVars, current_text,
                   thread_services>>
    /\ UNCHANGED directVars

\* The window's handlers, the translation thread and the workers of its
\* batch; the glossary stays as it was loaded.
NextWindow ==
    \/ OnFileSelected
    \/ StartTranslation
    \/ RunTranslation
    \/ RunTranslationRaises
    \/ Submit
    \/ WorkerStart
    \/ WorkerFinish
    \/ Collect
    \/ Assemble
    \/ RunTranslationReturn
    \/ OnTranslationComplete
    \/ OnTranslationError
    \/ OnSettingsSaved
    \/ ReloadGoogle
    \/ ReloadOpenAI

\* The translation thread and the pool's workers keep running, every
\* started provider call ends, and Tk's event loop runs each handler that
\* root.after has queued.
SpecWindow ==
    /\ InitWindow
    /\ [][NextWindow]_vars
    /\ WF_vars(RunTranslation)
    /\ WF_vars(RunTranslationRaises)
    /\ WF_vars(Submit)
    /\ WF_vars(WorkerStart)
    /\ WF_vars(WorkerFinish)
    /\ WF_vars(Collect)
    /\ WF_vars(Assemble)
    /\ WF_vars(RunTranslationReturn)
    /\ SF_vars(OnTranslationComplete)
    /\ SF_vars(OnTranslationError)
    /\ WF_vars(ReloadGoogle)
    /\ WF_vars(ReloadOpenAI)

\* A thread started by _start_translation has not yet had its
\* _on_translation_complete or _on_translation_error run.
BatchInFlight ==
    gui_pc \in {"thread_started", "in_batch", "complete_scheduled",
                "error_scheduled"}

\* C25: _is_translating is true exactly from a successful start until
\* _on_translation_complete or _on_translation_error runs, so that at most
\* one batch is in flight and a start while it is true does nothing.
FlagTrueExactlyWhileBatchInFlight ==
    /\ is_translating <=> BatchInFlight
    /\ pc # "idle" => caller = "gui" /\ gui_pc = "in_batch"

\* C26: every thread started by _start_translation leads to exactly one of
\* _on_translation_complete and _on_translation_error being scheduled and
\* run, which sets _is_translating back to false.
StartedBatchResetsFlag ==
    (gui_pc = "thread_started")
        ~> (gui_pc = "idle" /\ ~is_translating)

\* The thread's translate_parallel raised and _on_translation_error is
\* scheduled, the flag still set.
ErrorScheduledReached ==
    /\ gui_pc = "error_scheduled"
    /\ is_translating
    /\ pc = "idle"

\* C27: every unit of a batch started from the window and the batch's final
\* pass apply one and the same glossary, whatever is saved in the glossary
\* tab while the batch runs.
OneGlossaryPerBatch ==
    (caller = "gui" /\ pc # "idle") =>
        \E g \in Glossaries :
            /\ \A k \in 1..Len(futures) :
                  (/\ futures[k].state \in {"finished", "yielded"}
                   /\ provider_outcome[k].kind = "returned") =>
                      futures[k].result[3] = apply(g, provider_outcome[k].text)
            /\ pc = "returned" =>
                  \A service \in DOMAIN final_results :
                      final_results[service] =
                          apply(g, join(all_results[service]))

\* ------------------------------------------------------------------------
\* Several Settings objects and the class defaults
\* ------------------------------------------------------------------------

\* The api_keys dict an object's _settings["api_keys"] refers to: the
\* class's own dict, or a dict of the object's.
api_keys_of(instance, class_keys) ==
    IF instance.api_keys_ref = "class" THEN class_keys ELSE instance.api_keys

\* The JSON objects the config files hold: with or without "api_keys" and
\* "chunk_size".
SharingConfigData ==
    { <<>>,
      [chunk_size |-> 500],
      [api_keys |-> [openai |-> "sk"]],
      [api_keys |-> [openai |-> "sk"], chunk_size |-> 500] }

SharingConfigFiles ==
    { NoConfigFile } \cup { [state |-> "json", data |-> d] : d \in SharingConfigData }

\* DEFAULT_SETTINGS.copy(): a new outer dict whose "api_keys" is the class's
\* dict itself.
shallow_copy_of_defaults ==
    [state |-> "built", api_keys_ref |-> "class", api_keys |-> <<>>,
     chunk_size |-> DEFAULT_chunk_size]

\* Settings.load: without a readable JSON file the shallow copy; with one,
\* _deep_merge, which builds a new dict only for an "api_keys" the file has.
load_instance(file, class_keys) ==
    IF file.state # "json" THEN shallow_copy_of_defaults
    ELSE [state |-> "built",
          api_keys_ref |->
              IF "api_keys" \in DOMAIN file.data THEN "own" ELSE "class",
          api_keys |->
              IF "api_keys" \in DOMAIN file.data
              THEN _deep_merge(class_keys, file.data["api_keys"])
              ELSE <<>>,
          chunk_size |->
              IF "chunk_size" \in DOMAIN file.data
              THEN file.data["chunk_size"]
              ELSE DEFAULT_chunk_size]

\* Settings objects about to be built on any config files.
InitSharing ==
    /\ IdleApplication
    /\ glossary = EmptyGlossary
    /\ NoSettings
    /\ NoDeepL
    /\ class_api_keys = DEFAULT_api_keys
    /\ instances = [i \in Instances |-> NoInstance]
    /\ config_files \in [Instances -> SharingConfigFiles]
    /\ NoHistory
    /\ NoCall

\* The call record of a method of object i.
MethodCalled(name, arguments) ==
    /\ fn' = name
    /\ args' = arguments
    /\ fn_pc' = "returned"
    /\ UNCHANGED <<translatorVars, batchVars, guiVars, historyVars, ret, events,
                   settingsVars, deeplVars, storeVars>>

\* Settings(config_path), and a later load().
LoadInstance(i) ==
    /\ instances' =
          [instances EXCEPT ![i] = load_instance(config_files[i], class_api_keys)]
    /\ UNCHANGED <<class_api_keys, config_files>>
    /\ MethodCalled(IF instances[i].state = "none" THEN "__init__" ELSE "load",
                    <<i>>)

\* save() when the file can be written: json.dump writes what _settings
\* holds.
SaveInstance(i) ==
    /\ instances[i].state = "built"
    /\ config_files' =
          [config_files EXCEPT ![i] =
              [state |-> "json",
               data |-> [api_keys |-> api_keys_of(instances[i], class_api_keys),
                         chunk_size |-> instances[i].chunk_size]]]
    /\ UNCHANGED <<class_api_keys, instances>>
    /\ MethodCalled("save", <<i>>)

\* self._settings["api_keys"][service] = key: the dict referred to is
\* changed in place.
SetApiKey(i) ==
    /\ instances[i].state = "built"
    /\ \E service \in {"openai"}, key \in ApiKeyValues :
          /\ IF instances[i].api_keys_ref = "class"
             THEN /\ class_api_keys' = [class_api_keys EXCEPT ![service] = key]
                  /\ UNCHANGED instances
             ELSE /\ instances' =
                        [instances EXCEPT ![i].api_keys =
                            [s \in DOMAIN @ \cup {service} |->
                                IF s = service THEN key ELSE @[s]]]
                  /\ UNCHANGED class_api_keys
          /\ MethodCalled("set_api_key", <<i, service, key>>)
    /\ UNCHANGED config_files

\* set("chunk_size", value): self._settings[key] = value
SetValue(i) ==
    /\ instances[i].state = "built"
    /\ \E value \in {500, DEFAULT_chunk_size} :
          /\ instances' = [instances EXCEPT ![i].chunk_size = value]
          /\ MethodCalled("set", <<i, "chunk_size", value>>)
    /\ UNCHANGED <<class_api_keys, config_files>>

\* reset_to_defaults(): self._settings = self.DEFAULT_SETTINGS.copy()
ResetInstance(i) ==
    /\ instances[i].state = "built"
    /\ instances' = [instances EXCEPT ![i] = shallow_copy_of_defaults]
    /\ UNCHANGED <<class_api_keys, config_files>>
    /\ MethodCalled("reset_to_defaults", <<i>>)

NextSharing ==
    \/ \E i \in Instances : LoadInstance(i)
    \/ \E i \in Instances : SaveInstance(i)
    \/ \E i \in Instances : SetApiKey(i)
    \/ \E i \in Instances : SetValue(i)
    \/ \E i \in Instances : ResetInstance(i)

SpecSharing == InitSharing /\ [][NextSharing]_vars

\* C28: set_api_key and set on one Settings object change neither
\* DEFAULT_SETTINGS nor any value another object returns, and after
\* reset_to_defaults the object's chunk_size and every one of its API keys
\* are the original defaults.
InstancesShareNothing ==
    [][/\ fn' \in {"set_api_key", "set"} =>
            /\ class_api_keys' = class_api_keys
            /\ \A j \in Instances \ {args'[1]} :
                  /\ api_keys_of(instances'[j], class_api_keys')
                        = api_keys_of(instances[j], class_api_keys)
                  /\ instances'[j].chunk_size = instances[j].chunk_size
       /\ fn' = "reset_to_defaults" =>
            /\ instances'[args'[1]].chunk_size = DEFAULT_chunk_size
            /\ api_keys_of(instances'[args'[1]], class_api_keys')
                  = DEFAULT_api_keys]_vars

\* ------------------------------------------------------------------------
\* TranslationHistory (app/gui/history_view.py)
\* ------------------------------------------------------------------------

\* The number of entries add_entry keeps (`if len(self._entries) > 100`).
MAX_ENTRIES == 100

\* How many entries are added, and how many delete_entry calls are made, in
\* one run.
MaxAdds == 3

MaxDeletes == 2

\* The history files the object is loaded from: none, one just below the
\* limit and one above it (as written by hand or by another version).
StoredLengths == {0, MAX_ENTRIES - 1, MAX_ENTRIES + 1}

\* An entry is known by the number of its add_entry call; the entries a
\* file holds are numbered from -1 (the newest) downwards.
StoredEntries(n) == [i \in 1..n |-> 0 - i]

truncate_keeping_oldest(entries) ==
    IF Len(entries) > MAX_ENTRIES
    THEN SubSeq(entries, Len(entries) - MAX_ENTRIES + 1, Len(entries))
    ELSE entries

\* if len(self._entries) > 100: self._entries = self._entries[:100]
truncate(entries) ==
    IF Len(entries) > MAX_ENTRIES THEN SubSeq(entries, 1, MAX_ENTRIES) ELSE entries

\* self._entries.insert(0, entry) and the truncation
insert_entry(entries, entry) == truncate(<<entry>> \o entries)

\* `if 0 <= index < len(self._entries)`
index_in_range(index, entries) == 0 <= index /\ index < Len(entries)

\* del self._entries[index], for an index counted from 0
delete_at(entries, index) ==
    SubSeq(entries, 1, index) \o SubSeq(entries, index + 2, Len(entries))

\* TranslationHistory(history_path) after its load().
InitHistory ==
    /\ IdleApplication
    /\ glossary = EmptyGlossary
    /\ NoSettings
    /\ NoDeepL
    /\ NoSharing
    /\ NoCall
    /\ \E n \in StoredLengths :
          /\ _entries = StoredEntries(n)
          /\ history_file = StoredEntries(n)
    /\ added = 0
    /\ deleted = 0

\* save(): the file is written, or open() fails and nothing is.
saved(file, entries, failed) == IF failed THEN file ELSE entries

\* add_entry(...): the entry is built, inserted at the front, the list cut
\* to MAX_ENTRIES and saved.
AddEntry ==
    /\ added < MaxAdds
    /\ added' = added + 1
    /\ _entries' = insert_entry(_entries, added + 1)
    /\ \E failed \in BOOLEAN :
          history_file' = saved(history_file, insert_entry(_entries, added + 1),
                                failed)
    /\ fn' = "add_entry"
    /\ args' = <<added + 1>>
    /\ fn_pc' = "returned"
    /\ ret' = <<>>
    /\ UNCHANGED <<translatorVars, batchVars, guiVars, historyVars, events,
                   settingsVars, deeplVars, sharingVars, deleted>>

\* delete_entry(index): True and the entry removed and the list saved, or
\* False.
DeleteEntry ==
    /\ deleted < MaxDeletes
    /\ deleted' = deleted + 1
    /\ \E index \in {-1, 0, Len(_entries) - 1, Len(_entries)}, failed \in BOOLEAN :
          /\ args' = <<index>>
          /\ IF index_in_range(index, _entries)
             THEN /\ _entries' = delete_at(_entries, index)
                  /\ history_file' =
                        saved(history_file, delete_at(_entries, index), failed)
                  /\ ret' = TRUE
             ELSE /\ UNCHANGED <<_entries, history_file>>
                  /\ ret' = FALSE
    /\ fn' = "delete_entry"
    /\ fn_pc' = "returned"
    /\ UNCHANGED <<translatorVars, batchVars, guiVars, historyVars, events,
                   settingsVars, deeplVars, sharingVars, added>>

NextHistory ==
    \/ AddEntry
    \/ DeleteEntry

SpecHistory == InitHistory /\ [][NextHistory]_vars

\* C30: after add_entry the list holds at most 100 entries, the new entry
\* first and after it the entries that were there, in their order, the
\* oldest left out when there is no room; delete_entry with an index
\* outside 0..len-1 returns False and leaves the list as it was.
HistoryNewestFirstAtMostHundred ==
    [][/\ fn' = "add_entry" =>
            /\ Len(_entries') <= 100
            /\ Len(_entries') >= 1
            /\ _entries'[1] = args'[1]
            /\ Len(_entries) < 100 => Len(_entries') = Len(_entries) + 1
            /\ Len(_entries) >= 100 => Len(_entries') = 100
            /\ \A i \in 2..Len(_entries') : _entries'[i] = _entries[i - 1]
       /\ (fn' = "delete_entry"
              /\ ~(args'[1] \in 0..(Len(_entries) - 1))) =>
            /\ ret' = FALSE
            /\ _entries' = _entries]_vars

\* The list was full, one more entry was added and the oldest one is gone.
OldestDroppedReached ==
    /\ fn = "add_entry"
    /\ Len(_entries) = MAX_ENTRIES
    /\ _entries[1] = 2
    /\ _entries[2] = 1
    /\ _entries[MAX_ENTRIES] = 0 - (MAX_ENTRIES - 2)
====
